---- MODULE Spec2Model ----
(***************************************************************************)
(* A model of the SQLite connector of quaint (src/connector/sqlite.rs):    *)
(* one rusqlite::Connection behind a std::sync::Mutex, the operations of   *)
(* the Queryable implementation and Sqlite::attach_database as interleaved *)
(* steps of concurrent callers, and the connection-string parser           *)
(* SqliteParams::try_from as an operator over character sequences.         *)
(***************************************************************************)
EXTENDS Integers, Sequences, FiniteSets, TLC

\* ------------------------------------------------------------------ bounds
\* Number of concurrent callers sharing one connector.
NumCallers == 2
\* Total number of operations the callers issue in one behaviour.
MaxOps == 4
\* Operations issued in one behaviour of the connector under fairness.
MaxLiveOps == 3

Callers == 1..NumCallers
NoCaller == 0

\* Logical database names offered to attach_database.  "main" is the name
\* the in-memory database opened at construction always carries.
DbNames == {"main", "aux"}

\* SQL texts the callers send.  "INC" stands for
\* UPDATE counter SET n = n + 1, "INSERT" for an INSERT into table t,
\* "SELECT" for SELECT * FROM t, "CREATE" for the batch creating both tables,
\* "MASTER" for SELECT * FROM sqlite_master, "TABLE_DEF" for
\* CREATE TABLE USER (..), "CREATE_USER" for INSERT INTO USER (..) VALUES (..)
\* and "SELECT_USER" for SELECT * FROM USER.
TableSql == {"INC", "INSERT", "SELECT"}
UserSql == {"CREATE_USER", "SELECT_USER"}

\* The statements that yield rows.
Selects == {"SELECT", "MASTER", "SELECT_USER"}

VARIABLES
    conn,       \* the rusqlite::Connection guarded by Sqlite.client
    lock,       \* the caller holding the MutexGuard of Sqlite.client, or NoCaller
    pc,         \* pc[p]: where caller p stands in its current operation
    op,         \* op[p]: the operation of caller p in flight, [name, sql]
    reg,        \* reg[p]: value the running statement of p has read
    databases,  \* databases[p]: the local HashSet of attach_database
    rows,       \* rows[p]: result.rows of the query_raw call of p so far
    out,        \* the result most recently delivered to a caller
    txOwner,    \* the caller holding the open Transaction object, or NoCaller
    nOps,       \* operations issued so far
    incDone,    \* history: execute_raw/execute calls of "INC" that returned Ok
    fkLast,     \* history: enforcement state asked by the last successful fk call
    queue,      \* the callers parked inside Mutex::lock(), in order of arrival
    url,        \* the address string handed to SqliteParams::try_from
    cores,      \* num_cpus::get_physical()
    parsed,     \* the outcome of SqliteParams::try_from(url)
    sqlite,     \* the outcome of Sqlite::try_from(url): the kind and Sqlite.file_path
    disk,       \* whether the file at file_path holds tables
    lit         \* the literals in the VALUES list of the INSERT INTO USER text

connVars == <<conn, lock, pc, op, reg, databases, rows, out, txOwner, nOps,
              incDone, fkLast, queue>>
parseVars == <<url, cores, parsed, sqlite, disk, lit>>
vars == <<conn, lock, pc, op, reg, databases, rows, out, txOwner, nOps,
          incDone, fkLast, queue, url, cores, parsed, sqlite, disk, lit>>

\* ------------------------------------------------------- decimal numerals
\* Strings are sequences of characters.
DigitChars == <<"0", "1", "2", "3", "4", "5", "6", "7", "8", "9">>

DigitVal(c) == (CHOOSE i \in 1..10 : DigitChars[i] = c) - 1

IsDigit(c) == \E i \in 1..10 : DigitChars[i] = c

\* The decimal digits of a natural number.
RECURSIVE ToDec(_)
ToDec(n) ==
    IF n < 10 THEN <<DigitChars[n + 1]>>
    ELSE ToDec(n \div 10) \o <<DigitChars[(n % 10) + 1]>>

\* ------------------------------------------------------------- the values
\* A literal of an SQL text: an integer n, a floating value n + frac/10, or
\* a text s.
IntLit(n) == [type |-> "int", n |-> n, frac |-> 0, s |-> <<>>]
RealLit(n, frac) == [type |-> "real", n |-> n, frac |-> frac, s |-> <<>>]
TextLit(s) == [type |-> "text", n |-> 0, frac |-> 0, s |-> s]

\* A value as the engine stores it, with its storage class.
Stored(class, n, frac, s) == [class |-> class, n |-> n, frac |-> frac, s |-> s]

\* The columns of TABLE_DEF with their declared types, and the affinity
\* the engine gives a column of that declared type.
Columns == {"ID", "NAME", "AGE", "SALARY"}
Decl == [ID |-> "INT", NAME |-> "TEXT", AGE |-> "INT", SALARY |-> "REAL"]

\* Every column with TEXT affinity, whatever its declared type.
AffinityText(decl) == "TEXT"

\* INT gives INTEGER affinity, TEXT gives TEXT, REAL gives REAL.
Affinity(decl) ==
    CASE decl = "INT" -> "INTEGER"
      [] decl = "TEXT" -> "TEXT"
      [] decl = "REAL" -> "REAL"

\* The literals of CREATE_USER: (1, 'Joe', 27, 20000.00).
TestRow ==
    [ID |-> IntLit(1), NAME |-> TextLit(<<"J", "o", "e">>), AGE |-> IntLit(27),
     SALARY |-> RealLit(20000, 0)]

\* A text made of digits only is a well-formed integer literal.
NumericText(s) == Len(s) > 0 /\ \A i \in 1..Len(s) : IsDigit(s[i])

RECURSIVE ValueOf(_)
ValueOf(s) ==
    IF Len(s) = 0 THEN 0
    ELSE 10 * ValueOf(SubSeq(s, 1, Len(s) - 1)) + DigitVal(s[Len(s)])

\* The text of a number.
NumberText(n, frac, real) ==
    IF real THEN ToDec(n) \o <<".">> \o <<DigitChars[frac + 1]>> ELSE ToDec(n)

\* What the engine stores for a literal in a column of the given affinity.
\* INTEGER: a floating value without fraction and a text that is a number
\* become integers.  TEXT: numbers become their text.  REAL: integers and
\* texts that are numbers become floating values.
Store(affinity, l) ==
    CASE affinity = "INTEGER" ->
           (CASE l.type = "int" -> Stored("INTEGER", l.n, 0, <<>>)
              [] l.type = "real" ->
                   IF l.frac = 0 THEN Stored("INTEGER", l.n, 0, <<>>)
                   ELSE Stored("REAL", l.n, l.frac, <<>>)
              [] l.type = "text" ->
                   IF NumericText(l.s) THEN Stored("INTEGER", ValueOf(l.s), 0, <<>>)
                   ELSE Stored("TEXT", 0, 0, l.s))
      [] affinity = "TEXT" ->
           (CASE l.type = "int" -> Stored("TEXT", 0, 0, NumberText(l.n, 0, FALSE))
              [] l.type = "real" ->
                   Stored("TEXT", 0, 0, NumberText(l.n, l.frac, TRUE))
              [] l.type = "text" -> Stored("TEXT", 0, 0, l.s))
      [] affinity = "REAL" ->
           (CASE l.type = "int" -> Stored("REAL", l.n, 0, <<>>)
              [] l.type = "real" -> Stored("REAL", l.n, l.frac, <<>>)
              [] l.type = "text" ->
                   IF NumericText(l.s) THEN Stored("REAL", ValueOf(l.s), 0, <<>>)
                   ELSE Stored("TEXT", 0, 0, l.s))

\* The row the engine stores for INSERT INTO USER .. VALUES (row).
StoreRow(row) == [c \in Columns |-> Store(Affinity(Decl[c]), row[c])]

\* The Result Mapper on one column: the tagged value of the class the
\* engine reports, without coercion.
ToValue(v) ==
    CASE v.class = "INTEGER" ->
           [variant |-> "Integer", n |-> v.n, frac |-> 0, s |-> <<>>]
      [] v.class = "REAL" ->
           [variant |-> "Real", n |-> v.n, frac |-> v.frac, s |-> <<>>]
      [] v.class = "TEXT" ->
           [variant |-> "Text", n |-> 0, frac |-> 0, s |-> v.s]

\* row.to_result_row(): every column of the row, under its name.
ToResultRow(row) == [c \in Columns |-> ToValue(row[c])]

\* as_i64(), as_f64() and as_str() of a tagged value: <<x>> is Some(x),
\* <<>> is None.
AsI64(v) == IF v.variant = "Integer" THEN <<v.n>> ELSE <<>>
AsF64(v) == IF v.variant = "Real" THEN <<<<v.n, v.frac>>>> ELSE <<>>
AsStr(v) == IF v.variant = "Text" THEN <<v.s>> ELSE <<>>

\* ------------------------------------------------------------ the engine
\* The state a rollback restores.
Snapshot(c) ==
    [schema |-> c.schema, counter |-> c.counter, t |-> c.t,
     userDef |-> c.userDef, user |-> c.user]
NoSnapshot ==
    [schema |-> FALSE, counter |-> 0, t |-> <<>>, userDef |-> FALSE,
     user |-> <<>>]

\* A connection opened on the file at file_path instead of in memory: its
\* main database holds what the file holds.
OpenOnDisk ==
    [schema |-> disk, counter |-> 0, t |-> <<>>, rowid |-> 0,
     attached |-> {"main"}, fk |-> FALSE, inTx |-> FALSE, saved |-> NoSnapshot,
     userDef |-> FALSE, user |-> <<>>]

\* rusqlite::Connection::open_in_memory(): an empty database named "main",
\* no table, last_insert_rowid 0, foreign keys off, autocommit.
OpenInMemory ==
    [schema |-> FALSE, counter |-> 0, t |-> <<>>, rowid |-> 0,
     attached |-> {"main"}, fk |-> FALSE, inTx |-> FALSE, saved |-> NoSnapshot,
     userDef |-> FALSE, user |-> <<>>]

\* The state of `conn` before Sqlite::try_from has built a connector: no
\* database at all, not even "main".
NoConnection ==
    [schema |-> FALSE, counter |-> 0, t |-> <<>>, rowid |-> 0,
     attached |-> {}, fk |-> FALSE, inTx |-> FALSE, saved |-> NoSnapshot,
     userDef |-> FALSE, user |-> <<>>]

\* Whether the engine compiles the statement: a statement naming a table
\* fails to prepare while the tables do not exist.
PrepareOk(c, sql) ==
    /\ sql \in TableSql => c.schema
    /\ sql \in UserSql => c.userDef

\* Whether running the prepared statement succeeds: no BEGIN inside a
\* transaction, no COMMIT or ROLLBACK outside one, no table created twice,
\* no second row with the PRIMARY KEY of a row of USER.
StepOk(c, sql) ==
    CASE sql = "BEGIN" -> ~c.inTx
      [] sql \in {"COMMIT", "ROLLBACK"} -> c.inTx
      [] sql = "TABLE_DEF" -> ~c.userDef
      [] sql = "CREATE_USER" ->
           \A i \in DOMAIN c.user : c.user[i]["ID"] # StoreRow(lit)["ID"]
      [] OTHER -> TRUE

\* The connection after the statement sql, issued by caller p, has run;
\* r is the counter value the statement read when it started.
StepEffect(c, sql, p, r) ==
    CASE sql = "INC" -> [c EXCEPT !.counter = r + 1]
      [] sql = "INSERT" ->
            [c EXCEPT !.t = Append(c.t, p), !.rowid = Len(c.t) + 1]
      [] sql = "BEGIN" -> [c EXCEPT !.inTx = TRUE, !.saved = Snapshot(c)]
      [] sql = "COMMIT" -> [c EXCEPT !.inTx = FALSE, !.saved = NoSnapshot]
      [] sql = "ROLLBACK" ->
            [c EXCEPT !.schema = c.saved.schema, !.counter = c.saved.counter,
                      !.t = c.saved.t, !.userDef = c.saved.userDef,
                      !.user = c.saved.user, !.inTx = FALSE,
                      !.saved = NoSnapshot]
      [] sql = "TABLE_DEF" -> [c EXCEPT !.userDef = TRUE]
      [] sql = "CREATE_USER" ->
            [c EXCEPT !.user = Append(c.user, StoreRow(lit)),
                      !.rowid = Len(c.user) + 1]
      \* PRAGMA foreign_keys is a no-op inside a transaction
      [] sql = "FK_ON" -> IF c.inTx THEN c ELSE [c EXCEPT !.fk = TRUE]
      [] sql = "FK_OFF" -> IF c.inTx THEN c ELSE [c EXCEPT !.fk = FALSE]
      [] OTHER -> c

\* The rows the cursor of a statement walks: the rows of t, or the entries
\* of sqlite_master, which lists the tables of the main database, or the
\* rows of USER as row.to_result_row() hands them out.
Cursor(c, sql) ==
    CASE sql = "SELECT" -> c.t
      [] sql = "MASTER" ->
           (IF c.schema THEN <<"counter", "t">> ELSE <<>>)
           \o (IF c.userDef THEN <<"USER">> ELSE <<>>)
      [] sql = "SELECT_USER" -> [i \in DOMAIN c.user |-> ToResultRow(c.user[i])]
      [] OTHER -> <<>>

\* Rows the statement changed (sqlite3_changes).
Changes(sql) == IF sql \in {"INC", "INSERT"} THEN 1 ELSE 0

\* ------------------------------------------------------------- results
\* A delivered result: Ok(v) carries a sequence v (the rows of a ResultSet,
\* <<changes>> of execute_raw, <<id>> for Some(id) and <<>> for None or ()
\* of the other operations), Err an engine error.
Ok(v) == [kind |-> "ok", val |-> v]
Err == [kind |-> "err", val |-> <<>>]
NoOp == [name |-> "none", sql |-> "none"]
NoOut == [caller |-> NoCaller, name |-> "none", sql |-> "none",
          kind |-> "none", val |-> <<>>]

\* ------------------------------------------------------------ the mutex
\* A mutex that hands out a guard while another one is alive.
MutexFreeBroken == TRUE

\* Mutex::lock() returns a guard only while no other guard is alive.
MutexFree == lock = NoCaller

\* No caller has issued anything.
InitCallers ==
    /\ lock = NoCaller
    /\ pc = [p \in Callers |-> "idle"]
    /\ op = [p \in Callers |-> NoOp]
    /\ reg = [p \in Callers |-> 0]
    /\ databases = [p \in Callers |-> {}]
    /\ rows = [p \in Callers |-> <<>>]
    /\ out = NoOut
    /\ txOwner = NoCaller
    /\ nOps = 0
    /\ incDone = 0
    /\ fkLast = "none"
    /\ queue = <<>>

InitConnector ==
    /\ conn = OpenInMemory
    /\ InitCallers

\* Nothing has been parsed yet.
NotParsed == [kind |-> "none", file_path |-> <<>>, db_name |-> <<>>,
              connection_limit |-> <<>>]

\* Sqlite::try_from has not been called yet: there is no connector.
NotBuilt == [kind |-> "none", file_path |-> <<>>]

\* A connector constructed by Sqlite::new("db") on a machine with one
\* core, before its first operation.
Init ==
    /\ InitConnector
    /\ url = <<"d", "b">>
    /\ cores = 1
    /\ parsed = [kind |-> "Ok", file_path |-> <<"d", "b">>, db_name |-> <<>>,
                 connection_limit |-> <<"3">>]
    /\ sqlite = [kind |-> "Ok", file_path |-> <<"d", "b">>]
    /\ disk = FALSE
    /\ lit = TestRow


\* --------------------------------------------------------------- helpers
QueryPath == {"query_raw", "turn_off_fk_constraints", "turn_on_fk_constraints"}
ExecPath == {"execute_raw", "execute", "start_transaction", "commit", "rollback"}

\* Caller p issues an operation on the connector Sqlite::try_from returned:
\* the future is created and waits for the mutex.
Issue(p, name, sql) ==
    /\ sqlite.kind = "Ok"
    /\ pc[p] = "idle"
    /\ nOps < MaxOps
    /\ nOps' = nOps + 1
    /\ pc' = [pc EXCEPT ![p] = "lock"]
    /\ op' = [op EXCEPT ![p] = [name |-> name, sql |-> sql]]
    /\ UNCHANGED <<reg, databases, rows, out, queue>>

\* A return that leaves the guard alive when the result is an error.
GuardLeakedOnError(p, r) == IF r.kind = "err" THEN p ELSE NoCaller

\* The holder of the mutex once the closure of caller p has returned r:
\* `client` goes out of scope on the `?` paths as on the Ok path.
GuardAfterReturn(p, r) == NoCaller

\* The operation of p returns r; the MutexGuard it holds is dropped.
Return(p, r) ==
    /\ pc' = [pc EXCEPT ![p] = "idle"]
    /\ out' = [caller |-> p, name |-> op[p].name, sql |-> op[p].sql,
               kind |-> r.kind, val |-> r.val]
    /\ op' = [op EXCEPT ![p] = NoOp]
    /\ lock' = GuardAfterReturn(p, r)
    /\ reg' = [reg EXCEPT ![p] = 0]
    /\ databases' = [databases EXCEPT ![p] = {}]
    /\ rows' = [rows EXCEPT ![p] = <<>>]

\* ------------------------------------------------------------ operations
Execute(p, sql) ==
    /\ Issue(p, "execute", sql)
    /\ UNCHANGED <<conn, lock, txOwner, incDone, fkLast>>
    /\ UNCHANGED parseVars

QueryRaw(p, sql) ==
    /\ Issue(p, "query_raw", sql)
    /\ UNCHANGED <<conn, lock, txOwner, incDone, fkLast>>
    /\ UNCHANGED parseVars

ExecuteRaw(p, sql) ==
    /\ Issue(p, "execute_raw", sql)
    /\ UNCHANGED <<conn, lock, txOwner, incDone, fkLast>>
    /\ UNCHANGED parseVars

TurnOffFkConstraints(p) ==
    /\ Issue(p, "turn_off_fk_constraints", "FK_OFF")
    /\ UNCHANGED <<conn, lock, txOwner, incDone, fkLast>>
    /\ UNCHANGED parseVars

TurnOnFkConstraints(p) ==
    /\ Issue(p, "turn_on_fk_constraints", "FK_ON")
    /\ UNCHANGED <<conn, lock, txOwner, incDone, fkLast>>
    /\ UNCHANGED parseVars

RawCmd(p, cmd) ==
    /\ Issue(p, "raw_cmd", cmd)
    /\ UNCHANGED <<conn, lock, txOwner, incDone, fkLast>>
    /\ UNCHANGED parseVars

AttachDatabase(p, db_name) ==
    /\ Issue(p, "attach_database", db_name)
    /\ UNCHANGED <<conn, lock, txOwner, incDone, fkLast>>
    /\ UNCHANGED parseVars

\* The default transaction protocol: BEGIN, then the caller's operations,
\* then COMMIT or ROLLBACK, each sent down the execute_raw path.
StartTransaction(p) ==
    /\ Issue(p, "start_transaction", "BEGIN")
    /\ UNCHANGED <<conn, lock, txOwner, incDone, fkLast>>
    /\ UNCHANGED parseVars

Commit(p) ==
    /\ txOwner = p
    /\ Issue(p, "commit", "COMMIT")
    /\ txOwner' = NoCaller
    /\ UNCHANGED <<conn, lock, incDone, fkLast>>
    /\ UNCHANGED parseVars

Rollback(p) ==
    /\ txOwner = p
    /\ Issue(p, "rollback", "ROLLBACK")
    /\ txOwner' = NoCaller
    /\ UNCHANGED <<conn, lock, incDone, fkLast>>
    /\ UNCHANGED parseVars


\* ----------------------------------------------------------------- steps
\* self.client.lock().unwrap() and the call that follows it under the new
\* guard: client.prepare_cached(sql)? (with stmt.query(params)? and the
\* empty ResultSet in query_raw).  A statement that does not compile
\* returns the error and drops the guard.  The second acquisition of
\* execute leads to the read of the row id.
MutexLock(p) ==
    /\ pc[p] \in {"lock", "lock2"}
    /\ MutexFree
    /\ IF pc[p] = "lock" /\ op[p].name \in QueryPath \cup ExecPath
          /\ ~PrepareOk(conn, op[p].sql)
         THEN Return(p, Err)
         ELSE /\ lock' = p
              /\ pc' = [pc EXCEPT ![p] =
                          CASE pc[p] = "lock2" -> "rowid"
                            [] op[p].name = "raw_cmd" -> "batch"
                            [] op[p].name = "attach_database" -> "list"
                            [] op[p].name \in QueryPath -> "rows"
                            [] OTHER -> "execute"]
              /\ UNCHANGED <<op, reg, databases, rows, out>>
    /\ queue' = SelectSeq(queue, LAMBDA q : q # p)
    /\ UNCHANGED <<conn, txOwner, nOps, incDone, fkLast>>
    /\ UNCHANGED parseVars

\* One turn of `while let Some(row) = rows.next()?`: a SELECT hands out the
\* next row of its cursor, or None when the cursor is past the last row; any other
\* statement runs on the first call of next() and yields no row.  On None
\* the function returns Ok(result) and the guard is dropped.
RowsNext(p) ==
    /\ pc[p] = "rows"
    /\ IF op[p].sql \in Selects
         THEN /\ IF Len(rows[p]) < Len(Cursor(conn, op[p].sql))
                   THEN /\ rows' = [rows EXCEPT ![p] =
                                      Append(@, Cursor(conn, op[p].sql)[Len(@) + 1])]
                        /\ UNCHANGED <<pc, op, lock, reg, databases, out>>
                   ELSE Return(p, Ok(rows[p]))
              /\ UNCHANGED <<conn, fkLast>>
         ELSE IF StepOk(conn, op[p].sql)
                THEN /\ conn' = StepEffect(conn, op[p].sql, p, reg[p])
                     /\ fkLast' = CASE op[p].sql = "FK_ON" -> "on"
                                    [] op[p].sql = "FK_OFF" -> "off"
                                    [] OTHER -> fkLast
                     /\ Return(p, Ok(<<>>))
                ELSE /\ Return(p, Err)
                     /\ UNCHANGED <<conn, fkLast>>
    /\ UNCHANGED <<txOwner, nOps, incDone>>
    /\ UNCHANGED queue
    /\ UNCHANGED parseVars

\* stmt.execute(params)?, first half: the statement starts and reads the
\* row it is about to change; an engine error returns at once.
StmtExecute(p) ==
    /\ pc[p] = "execute"
    /\ IF StepOk(conn, op[p].sql)
         THEN /\ reg' = [reg EXCEPT ![p] =
                           IF op[p].sql = "INC" THEN conn.counter ELSE 0]
              /\ pc' = [pc EXCEPT ![p] = "write"]
              /\ UNCHANGED <<op, lock, databases, rows, out>>
         ELSE Return(p, Err)
    /\ UNCHANGED <<conn, txOwner, nOps, incDone, fkLast>>
    /\ UNCHANGED queue
    /\ UNCHANGED parseVars

\* An execute that still holds the guard of execute_raw when it locks again.
GuardKept(p) == p

\* The holder of the mutex when self.execute_raw(..).await? has returned
\* inside execute: the guard lived in the closure of execute_raw.
GuardAfterExecuteRaw(p) == NoCaller

\* stmt.execute(params)?, second half: the statement writes and
\* execute_raw returns Ok(changes), dropping the guard.  Inside execute
\* the caller goes on to take the mutex a second time.
StmtWrite(p) ==
    /\ pc[p] = "write"
    /\ conn' = StepEffect(conn, op[p].sql, p, reg[p])
    /\ incDone' = IF op[p].sql = "INC" THEN incDone + 1 ELSE incDone
    /\ txOwner' = IF op[p].name = "start_transaction" THEN p ELSE txOwner
    /\ IF op[p].name = "execute"
         THEN /\ pc' = [pc EXCEPT ![p] = "lock2"]
              /\ lock' = GuardAfterExecuteRaw(p)
              /\ reg' = [reg EXCEPT ![p] = 0]
              /\ UNCHANGED <<op, databases, rows, out>>
         ELSE Return(p, Ok(<<Changes(op[p].sql)>>))
    /\ UNCHANGED <<nOps, fkLast, queue>>
    /\ UNCHANGED parseVars

\* What execute hands back after execute_raw succeeded: Some(id) is <<id>>,
\* None is <<>>.
ExecuteResult(c, sql) == <<c.rowid>>

\* Some(Id::Int(client.last_insert_rowid() as usize)) under the second guard.
LastInsertRowid(p) ==
    /\ pc[p] = "rowid"
    /\ Return(p, Ok(ExecuteResult(conn, op[p].sql)))
    /\ UNCHANGED <<conn, txOwner, nOps, incDone, fkLast>>
    /\ UNCHANGED queue
    /\ UNCHANGED parseVars

\* client.execute_batch(cmd): the batch that creates the tables fails when
\* they exist already.
ExecuteBatch(p) ==
    /\ pc[p] = "batch"
    /\ IF op[p].sql = "CREATE" /\ ~conn.schema
         THEN /\ conn' = [conn EXCEPT !.schema = TRUE]
              /\ Return(p, Ok(<<>>))
         ELSE /\ Return(p, Err)
              /\ UNCHANGED conn
    /\ UNCHANGED <<txOwner, nOps, incDone, fkLast>>
    /\ UNCHANGED queue
    /\ UNCHANGED parseVars

\* PRAGMA database_list collected into the local set `databases`.
DatabaseList(p) ==
    /\ pc[p] = "list"
    /\ databases' = [databases EXCEPT ![p] = conn.attached]
    /\ pc' = [pc EXCEPT ![p] = "attach"]
    /\ UNCHANGED <<conn, lock, op, reg, rows, out, txOwner, nOps,
                   incDone, fkLast>>
    /\ UNCHANGED queue
    /\ UNCHANGED parseVars

\* attach_database without the look-up of the attached names.
NeedsAttachAlways(dbs, db_name) == TRUE

\* Whether attach_database sends ATTACH DATABASE ? AS ?.
NeedsAttach(dbs, db_name) == db_name \notin dbs

\* if !databases.contains(db_name) { ATTACH DATABASE file_path AS db_name }?
\* The engine attaches the file when it can open it (opened) and the name
\* is free; otherwise the statement fails and the error is returned.
AttachIfMissing(p) ==
    /\ pc[p] = "attach"
    /\ IF NeedsAttach(databases[p], op[p].sql)
         THEN \E opened \in BOOLEAN :
                IF opened /\ op[p].sql \notin conn.attached
                  THEN /\ conn' = [conn EXCEPT !.attached = @ \cup {op[p].sql}]
                       /\ pc' = [pc EXCEPT ![p] = "fk"]
                       /\ UNCHANGED <<op, lock, reg, databases, rows, out>>
                  ELSE /\ Return(p, Err)
                       /\ UNCHANGED conn
         ELSE /\ pc' = [pc EXCEPT ![p] = "fk"]
              /\ UNCHANGED <<conn, op, lock, reg, databases, rows, out>>
    /\ UNCHANGED <<txOwner, nOps, incDone, fkLast>>
    /\ UNCHANGED queue
    /\ UNCHANGED parseVars

\* attach_database ending on the wrong pragma.
AttachPragmaOff == "FK_OFF"

\* The statement attach_database ends on.
AttachPragma == "FK_ON"

\* PRAGMA foreign_keys = ON, then Ok(()).
ForeignKeysOn(p) ==
    /\ pc[p] = "fk"
    /\ conn' = StepEffect(conn, AttachPragma, p, 0)
    /\ fkLast' = "on"
    /\ Return(p, Ok(<<>>))
    /\ UNCHANGED <<txOwner, nOps, incDone>>
    /\ UNCHANGED queue
    /\ UNCHANGED parseVars

\* The steps inside the operations.
Step(p) ==
    \/ MutexLock(p)
    \/ RowsNext(p)
    \/ StmtExecute(p)
    \/ StmtWrite(p)
    \/ LastInsertRowid(p)
    \/ ExecuteBatch(p)
    \/ DatabaseList(p)
    \/ AttachIfMissing(p)
    \/ ForeignKeysOn(p)

\* The operations of the connector, issued by any caller at any time.
Next ==
    \/ \E p \in Callers, sql \in {"INSERT", "INC"} : Execute(p, sql)
    \/ \E p \in Callers : QueryRaw(p, "SELECT")
    \/ \E p \in Callers : ExecuteRaw(p, "INC")
    \/ \E p \in Callers : TurnOffFkConstraints(p)
    \/ \E p \in Callers : TurnOnFkConstraints(p)
    \/ \E p \in Callers : RawCmd(p, "CREATE")
    \/ \E p \in Callers, n \in DbNames : AttachDatabase(p, n)
    \/ \E p \in Callers : Step(p)

Spec == Init /\ [][Next]_vars

\* self.client.lock() finds the mutex held: the thread of caller p parks
\* behind the threads parked before it.
Park(p) ==
    /\ pc[p] \in {"lock", "lock2"}
    /\ ~MutexFree
    /\ \A i \in DOMAIN queue : queue[i] # p
    /\ queue' = Append(queue, p)
    /\ UNCHANGED <<conn, lock, pc, op, reg, databases, rows, out, txOwner,
                   nOps, incDone, fkLast>>
    /\ UNCHANGED parseVars

\* The connector with the threads parked at the mutex made visible.  A
\* std::sync::Mutex promises no order: when it is released, any caller that
\* asks for it, parked or not, may get it.
NextFifo ==
    \/ Next
    \/ \E p \in Callers : Park(p)

SpecFifo == Init /\ [][NextFifo]_vars

\* The connector under fair scheduling: a call into the engine returns
\* (a step under the guard that can be taken is taken), and a caller that
\* can lock the mutex again and again gets it.
EngineStep(p) ==
    \/ RowsNext(p)
    \/ StmtExecute(p)
    \/ StmtWrite(p)
    \/ LastInsertRowid(p)
    \/ ExecuteBatch(p)
    \/ DatabaseList(p)
    \/ AttachIfMissing(p)
    \/ ForeignKeysOn(p)

Fairness ==
    \A p \in Callers : SF_vars(MutexLock(p)) /\ WF_vars(EngineStep(p))

\* Every operation of the connector, each with one argument, MaxLiveOps of
\* them in all.
NextLive ==
    \/ \E p \in Callers : nOps < MaxLiveOps /\ Execute(p, "INSERT")
    \/ \E p \in Callers : nOps < MaxLiveOps /\ QueryRaw(p, "SELECT")
    \/ \E p \in Callers : nOps < MaxLiveOps /\ ExecuteRaw(p, "INC")
    \/ \E p \in Callers : nOps < MaxLiveOps /\ TurnOffFkConstraints(p)
    \/ \E p \in Callers : nOps < MaxLiveOps /\ TurnOnFkConstraints(p)
    \/ \E p \in Callers : nOps < MaxLiveOps /\ RawCmd(p, "CREATE")
    \/ \E p \in Callers : nOps < MaxLiveOps /\ AttachDatabase(p, "aux")
    \/ \E p \in Callers : Step(p)

SpecLive == Init /\ [][NextLive]_vars /\ Fairness

\* The connector with the default transaction protocol on top of it.
NextTx ==
    \/ Next
    \/ \E p \in Callers : StartTransaction(p)
    \/ \E p \in Callers : Commit(p)
    \/ \E p \in Callers : Rollback(p)

SpecTx == Init /\ [][NextTx]_vars


\* ------------------------------------------------- the connection string
\* Strings are sequences of characters.
SchemePrefix == <<"f", "i", "l", "e", ":">>
KeyConnectionLimit == <<"c", "o", "n", "n", "e", "c", "t", "i", "o", "n", "_", "l", "i", "m", "i", "t">>
KeyDbName == <<"d", "b", "_", "n", "a", "m", "e">>
\* u32::MAX and usize::MAX (64 bit) in decimal.
U32Max == <<"4", "2", "9", "4", "9", "6", "7", "2", "9", "5">>
UsizeMax == <<"1", "8", "4", "4", "6", "7", "4", "4", "0", "7", "3", "7", "0", "9", "5", "5", "1", "6", "1", "5">>

\* Bounds of the addresses tried: entries in the parameter block, and cores.
MaxParams == 2
MaxCores == 2

\* The paths that are existing directories: "dir" and "file:db".
Dirs == {<<"d", "i", "r">>, <<"f", "i", "l", "e", ":", "d", "b">>}

\* Path::new(path_str).is_dir()
IsDir(path_str) == path_str \in Dirs

IsPrefix(pat, str) == Len(pat) <= Len(str) /\ SubSeq(str, 1, Len(pat)) = pat

\* str::trim_start_matches: the pattern is removed as often as it leads.
RECURSIVE TrimStartMatches(_, _)
TrimStartMatches(str, pat) ==
    IF Len(pat) > 0 /\ IsPrefix(pat, str)
      THEN TrimStartMatches(SubSeq(str, Len(pat) + 1, Len(str)), pat)
      ELSE str

\* str::split(c).collect(): the pieces between every occurrence of c.
Split(str, c) ==
    LET at == {i \in 1..Len(str) : str[i] = c}
        \* the k-th occurrence of c; 0 before the first, Len + 1 after the last
        cut(k) == IF k = 0 THEN 0
                  ELSE IF k > Cardinality(at) THEN Len(str) + 1
                  ELSE CHOOSE i \in at : Cardinality({j \in at : j < i}) = k - 1
    IN  [k \in 1..(Cardinality(at) + 1) |->
            SubSeq(str, cut(k - 1) + 1, cut(k) - 1)]

RECURSIVE StripZeros(_)
StripZeros(d) ==
    IF Len(d) > 1 /\ d[1] = "0" THEN StripZeros(Tail(d)) ELSE d

\* a > b for decimal numerals without leading zeros.
DecGreater(a, b) ==
    \/ Len(a) > Len(b)
    \/ /\ Len(a) = Len(b)
       /\ \E i \in 1..Len(a) :
            /\ DigitVal(a[i]) > DigitVal(b[i])
            /\ \A j \in 1..(i - 1) : a[j] = b[j]

\* v.parse::<usize>(): an optional '+', then digits only, at most
\* usize::MAX; the value is kept as its decimal numeral.
ParseUsize(v) ==
    LET body == IF Len(v) > 0 /\ v[1] = "+" THEN Tail(v) ELSE v
    IN  IF Len(body) = 0 \/ \E i \in 1..Len(body) : ~IsDigit(body[i])
          THEN [ok |-> FALSE, val |-> <<>>]
        ELSE IF DecGreater(StripZeros(body), UsizeMax)
          THEN [ok |-> FALSE, val |-> <<>>]
        ELSE [ok |-> TRUE, val |-> StripZeros(body)]

\* u32::try_from(connection_limit) succeeds.
FitsU32(n) == ~DecGreater(n, U32Max)

\* The closure of map(): every key=value entry split on '='.
KeyValues(block) ==
    LET kvs == Split(block, "&")
    IN  [i \in 1..Len(kvs) |-> Split(kvs[i], "=")]

\* splitted[1] exists for every entry.
AllHaveValue(kvs) == \A i \in 1..Len(kvs) : Len(kvs[i]) >= 2

\* The loop over the parameters, from entry i on: acc is
\* [err, connection_limit, db_name].  A connection_limit that does not
\* parse ends the loop with InvalidConnectionArguments.
RECURSIVE ApplyParams(_, _, _)
ApplyParams(kvs, i, acc) ==
    IF i > Len(kvs) THEN acc
    ELSE LET k == kvs[i][1]
             v == kvs[i][2]
         IN  IF k = KeyConnectionLimit
               THEN IF ParseUsize(v).ok
                      THEN ApplyParams(kvs, i + 1,
                               [acc EXCEPT !.connection_limit = ParseUsize(v).val])
                      ELSE [acc EXCEPT !.err = TRUE]
             ELSE IF k = KeyDbName
               THEN ApplyParams(kvs, i + 1, [acc EXCEPT !.db_name = <<v>>])
             ELSE ApplyParams(kvs, i + 1, acc)

\* The outcomes of SqliteParams::try_from.  db_name is <<v>> for Some(v)
\* and <<>> for None; "panic" is an abort of the thread.
ParamsOk(path_str, db_name, limit) ==
    [kind |-> "Ok", file_path |-> path_str, db_name |-> db_name,
     connection_limit |-> limit]
ParamsErr(kind, path_str) ==
    [kind |-> kind, file_path |-> path_str, db_name |-> <<>>,
     connection_limit |-> <<>>]

\* The values before the parameters are read: connection_limit is
\* num_cpus::get_physical() * 2 + 1 and db_name is None.
Defaults(n_cores) ==
    [err |-> FALSE, connection_limit |-> ToDec(n_cores * 2 + 1),
     db_name |-> <<>>]

\* The body of `if path_parts.len() > 1` for the parameter text `block`,
\* and the Ok(Self { .. }) that follows it.
ParseBlock(path_str, block, start) ==
    LET kvs == KeyValues(block)
    IN  IF ~AllHaveValue(kvs)
          THEN ParamsErr("panic", <<>>)
        ELSE LET acc == ApplyParams(kvs, 1, start)
             IN  IF acc.err
                   THEN ParamsErr("InvalidConnectionArguments", <<>>)
                 ELSE IF ~FitsU32(acc.connection_limit)
                   THEN ParamsErr("panic", <<>>)
                 ELSE ParamsOk(path_str, acc.db_name, acc.connection_limit)

\* SqliteParams::try_from(path) on a machine with n_cores physical cores.
SqliteParamsTryFrom(path, n_cores) ==
    LET trimmed == TrimStartMatches(path, SchemePrefix)
        path_parts == Split(trimmed, "?")
        path_str == path_parts[1]
    IN  IF IsDir(path_str)
          THEN ParamsErr("DatabaseUrlIsInvalid", path_str)
        ELSE IF Len(path_parts) > 1
          THEN ParseBlock(path_str, path_parts[Len(path_parts)],
                          Defaults(n_cores))
        ELSE ParamsOk(path_str, <<>>, Defaults(n_cores).connection_limit)

\* The addresses tried: up to two scheme prefixes, a path, and up to
\* MaxParams entries each led by '?' or '&' (the first by '?').
Prefixes == {<<>>, SchemePrefix, SchemePrefix \o SchemePrefix}
Paths == {<<>>, <<"d", "b">>, <<"d", "i", "r">>}
Entries ==
    { <<>>,
      <<"f", "l", "a", "g">>,
      <<"f", "l", "a", "g">> \o <<"=">> \o <<"v">>,
      KeyConnectionLimit \o <<"=">> \o <<"7">>,
      KeyConnectionLimit \o <<"=">> \o <<"0">>,
      KeyConnectionLimit \o <<"=">> \o <<"-", "1">>,
      KeyConnectionLimit \o <<"=">> \o <<"v">>,
      KeyConnectionLimit \o <<"=">> \o <<"4", "2", "9", "4", "9", "6", "7", "2", "9", "6">>,
      KeyConnectionLimit \o <<"=">> \o <<"1", "8", "4", "4", "6", "7", "4", "4", "0", "7", "3", "7", "0", "9", "5", "5", "1", "6", "1", "6">>,
      KeyDbName \o <<"=">> \o <<"v">> }

RECURSIVE Block(_, _, _)
Block(es, seps, i) ==
    IF i > Len(es) THEN <<>>
    ELSE <<seps[i]>> \o es[i] \o Block(es, seps, i + 1)

\* Before construction: an address and a machine, no connector yet.
InitParse ==
    /\ conn = NoConnection
    /\ InitCallers
    /\ cores \in 1..MaxCores
    /\ parsed = NotParsed
    /\ sqlite = NotBuilt
    /\ disk = FALSE
    /\ lit = TestRow
    /\ \E pre \in Prefixes, pth \in Paths, k \in 0..MaxParams :
         \E es \in [1..k -> Entries], seps \in [1..k -> {"?", "&"}] :
            /\ k >= 1 => seps[1] = "?"
            /\ url = pre \o pth \o Block(es, seps, 1)

\* let params = SqliteParams::try_from(path)?, the first statement of
\* Sqlite::try_from(url).
TryFrom ==
    /\ parsed = NotParsed
    /\ parsed' = SqliteParamsTryFrom(url, cores)
    /\ UNCHANGED <<url, cores, sqlite, disk, lit>>
    /\ UNCHANGED connVars

\* The rest of Sqlite::try_from(url): an error of the parser is returned
\* as it is (an abort stays an abort) and no connector exists; otherwise
\* Connection::open_in_memory() behind a new Mutex, and params.file_path.
SqliteTryFrom ==
    /\ parsed # NotParsed
    /\ sqlite = NotBuilt
    /\ IF parsed.kind = "Ok"
         THEN /\ conn' = OpenInMemory
              /\ sqlite' = [kind |-> "Ok", file_path |-> parsed.file_path]
         ELSE /\ conn' = conn
              /\ sqlite' = [kind |-> parsed.kind, file_path |-> <<>>]
    /\ UNCHANGED <<url, cores, parsed, disk, lit>>
    /\ UNCHANGED <<lock, pc, op, reg, databases, rows, out, txOwner, nOps,
                   incDone, fkLast, queue>>

NextParse ==
    \/ TryFrom
    \/ SqliteTryFrom

SpecParse == InitParse /\ [][NextParse]_vars

\* ------------------------------------------------------------------ claims
\* Positions in which a caller runs against the connection.
InEngine == {"rows", "execute", "write", "batch", "list", "attach", "fk", "rowid"}
Waiting == {"lock", "lock2"}

\* C1: at any instant at most one caller is inside an engine-touching
\* section (the drain of query_raw, the execute of execute_raw, the batch of
\* raw_cmd, the statements of attach_database, the row-id read of execute),
\* and that caller holds the mutex.
C1_MutualExclusion ==
    \A p, q \in Callers :
        pc[p] \in InEngine =>
            /\ lock = p
            /\ (pc[q] \in InEngine => q = p)

\* C1 witness: one caller is inside a section while another waits for the
\* mutex.
C1_Witness ==
    \E p, q \in Callers :
        p # q /\ pc[p] \in InEngine /\ pc[q] \in Waiting

\* C2: once every caller has completed, the counter equals the number of
\* increments that returned Ok: no update is lost, whatever the interleaving.
C2_NoLostUpdates ==
    (\A p \in Callers : pc[p] = "idle") => conn.counter = incDone

\* C2 witness: at least two increments have completed through execute_raw
\* and every caller is done.
C2_Witness ==
    /\ \A p \in Callers : pc[p] = "idle"
    /\ incDone >= 2
    /\ out.name = "execute_raw" /\ out.kind = "ok"

\* C3 (as claimed): execute of an INSERT returns Some(id), id being the row
\* the same call inserted.
C3_ExecuteReturnsOwnRow ==
    (out.name = "execute" /\ out.sql = "INSERT" /\ out.kind = "ok") =>
        /\ Len(out.val) = 1
        /\ out.val[1] \in 1..Len(conn.t)
        /\ conn.t[out.val[1]] = out.caller

\* C4 (as claimed): execute of a statement that is not an insert returns None.
C4_ExecuteNonInsertNone ==
    (out.name = "execute" /\ out.sql = "INC" /\ out.kind = "ok") =>
        out.val = <<>>

\* C5 (as claimed): while a transaction is open, a query_raw of another
\* caller returns no row the owner of the transaction inserted since BEGIN.
C5_NoUncommittedRead ==
    (/\ conn.inTx
     /\ txOwner # NoCaller
     /\ out.name = "query_raw" /\ out.sql = "SELECT" /\ out.kind = "ok"
     /\ out.caller # txOwner) =>
        \A i \in DOMAIN out.val :
            i > Len(conn.saved.t) => out.val[i] # txOwner

C7_FkFollowsLastCall ==
    fkLast # "none" => (conn.fk <=> fkLast = "on")

\* C7 witness: turn_off_fk_constraints has switched enforcement off after an
\* attach_database had switched it on.
C7_Witness ==
    /\ fkLast = "off"
    /\ "aux" \in conn.attached
    /\ out.name = "turn_off_fk_constraints" /\ out.kind = "ok"

\* C8: while query_raw drains a SELECT the caller holds the mutex and no
\* step changes the connection; the rows returned are the whole table as it
\* stands when the guard is dropped.
C8_QuerySnapshot ==
    [][\A p \in Callers :
         (pc[p] = "rows" /\ op[p].sql = "SELECT") =>
             /\ lock = p
             /\ conn' = conn
             /\ pc'[p] \in {"rows", "idle"}
             /\ (pc'[p] = "idle" =>
                    out' = [caller |-> p, name |-> "query_raw",
                            sql |-> "SELECT", kind |-> "ok", val |-> conn.t])]_vars

\* C8 witness: a query_raw has read a row and has not returned yet, while
\* another caller waits for the mutex with a statement that writes.
C8_Witness ==
    \E p, q \in Callers :
        /\ p # q
        /\ pc[p] = "rows" /\ op[p].sql = "SELECT" /\ Len(rows[p]) >= 1
        /\ pc[q] = "lock" /\ op[q].sql \in {"INSERT", "INC", "aux"}

\* C9 (as claimed): for an address file:<path>, <path> a valid path text
\* (no '?', not a directory), parsing yields file_path = <path>: one scheme
\* prefix is removed and nothing else.
C9_OnePrefixStripped ==
    LET rest == SubSeq(url, Len(SchemePrefix) + 1, Len(url))
    IN  (/\ parsed # NotParsed
         /\ IsPrefix(SchemePrefix, url)
         /\ \A i \in 1..Len(rest) : rest[i] # "?"
         /\ ~IsDir(rest)) =>
            (parsed.kind = "Ok" /\ parsed.file_path = rest)

\* C10 (as claimed): for every address, parsing ends in a Configuration or
\* in DatabaseUrlIsInvalid or InvalidConnectionArguments; it never aborts.
C10_NeverAborts ==
    parsed.kind \in {"none", "Ok", "DatabaseUrlIsInvalid",
                     "InvalidConnectionArguments"}

\* The addresses of the connectors the tests build.
FreshAddresses == {<<"d", "b">>, SchemePrefix \o <<"d", "b">>}

\* Before Sqlite::new(address): the file at the address holds tables or not.
InitFresh ==
    /\ conn = NoConnection
    /\ InitCallers
    /\ url \in FreshAddresses
    /\ cores = 1
    /\ parsed = NotParsed
    /\ sqlite = NotBuilt
    /\ disk \in BOOLEAN
    /\ lit = TestRow

\* Construction, then callers that list the schema, directly or inside a
\* transaction, and nothing else.
NextFresh ==
    \/ TryFrom
    \/ SqliteTryFrom
    \/ \E p \in Callers : QueryRaw(p, "MASTER")
    \/ \E p \in Callers : StartTransaction(p)
    \/ \E p \in Callers : Commit(p)
    \/ \E p \in Callers : Rollback(p)
    \/ \E p \in Callers : MutexLock(p)
    \/ \E p \in Callers : RowsNext(p)
    \/ \E p \in Callers : StmtExecute(p)
    \/ \E p \in Callers : StmtWrite(p)

SpecFresh == InitFresh /\ [][NextFresh]_vars

\* --------------------------------------------------- the table of the test
\* The literals a VALUES list may hold in the place of one of the test's.
Literals ==
    {IntLit(1), IntLit(27), TextLit(<<"J", "o", "e">>), TextLit(<<"2", "7">>),
     RealLit(20000, 0), RealLit(0, 5)}

\* The VALUES lists: the one of CREATE_USER, and it with one literal replaced.
LiteralRows ==
    {TestRow} \cup {[TestRow EXCEPT ![c] = l] : c \in Columns, l \in Literals}

\* Sqlite::try_from("file:db/test.db") has returned; the INSERT text holds
\* one of the VALUES lists.
InitRound ==
    /\ InitConnector
    /\ url = SchemePrefix \o <<"d", "b">>
    /\ cores = 1
    /\ parsed = SqliteParamsTryFrom(url, cores)
    /\ sqlite = [kind |-> "Ok", file_path |-> <<"d", "b">>]
    /\ disk = FALSE
    /\ lit \in LiteralRows

\* should_map_columns_correctly: the three statements, all through
\* query_raw, issued by any caller in any order.
NextRound ==
    \/ \E p \in Callers : QueryRaw(p, "TABLE_DEF")
    \/ \E p \in Callers : QueryRaw(p, "CREATE_USER")
    \/ \E p \in Callers : QueryRaw(p, "SELECT_USER")
    \/ \E p \in Callers : MutexLock(p)
    \/ \E p \in Callers : RowsNext(p)

SpecRound == InitRound /\ [][NextRound]_vars

\* ------------------------------------- the address as the grammar reads it
\* ["file:"] <path> ["?" key "=" value {"&" key "=" value}]: one scheme
\* prefix, the path up to the first '?', the parameter block after it.
Before(str, c) ==
    IF \E i \in 1..Len(str) : str[i] = c
      THEN SubSeq(str, 1, (CHOOSE i \in 1..Len(str) :
                             str[i] = c /\ \A j \in 1..(i - 1) : str[j] # c) - 1)
      ELSE str

After(str, c) ==
    IF \E i \in 1..Len(str) : str[i] = c
      THEN SubSeq(str, Len(Before(str, c)) + 2, Len(str))
      ELSE <<>>

HasChar(str, c) == \E i \in 1..Len(str) : str[i] = c

Unprefixed(a) ==
    IF IsPrefix(SchemePrefix, a)
      THEN SubSeq(a, Len(SchemePrefix) + 1, Len(a))
      ELSE a

PathComponent(a) == Before(Unprefixed(a), "?")
ParameterBlock(a) == After(Unprefixed(a), "?")

\* The entries of the parameter block, and the key and value of an entry.
BlockEntries(a) ==
    IF HasChar(Unprefixed(a), "?") THEN Split(ParameterBlock(a), "&") ELSE <<>>
PairKey(e) == Before(e, "=")
PairValue(e) == After(e, "=")

\* An optional sign and at least one digit.
IsInteger(v) ==
    LET body == IF Len(v) > 0 /\ v[1] \in {"+", "-"} THEN Tail(v) ELSE v
    IN  Len(body) > 0 /\ \A i \in 1..Len(body) : IsDigit(body[i])

\* A key=value entry whose key the parser does not recognize.
IsUnknownPair(e) ==
    HasChar(e, "=") /\ PairKey(e) \notin {KeyConnectionLimit, KeyDbName}

RECURSIVE Join(_, _)
Join(es, sep) ==
    IF Len(es) = 0 THEN <<>>
    ELSE IF Len(es) = 1 THEN es[1]
    ELSE es[1] \o <<sep>> \o Join(Tail(es), sep)

\* The address without its unrecognized key=value entries.
WithoutUnknown(a) ==
    LET kept == SelectSeq(BlockEntries(a), LAMBDA e : ~IsUnknownPair(e))
        head == SubSeq(a, 1, Len(a) - Len(Unprefixed(a))) \o PathComponent(a)
    IN  IF Len(kept) = 0 THEN head ELSE head \o <<"?">> \o Join(kept, "&")

\* C11 (as claimed): an address whose parameter block has an entry
\* connection_limit=<value>, <value> not an integer, and whose path is not a
\* directory, fails with InvalidConnectionArguments, and Sqlite::try_from
\* builds no connector.
C11_BadLimitRejected ==
    (/\ parsed # NotParsed
     /\ ~IsDir(PathComponent(url))
     /\ \E i \in DOMAIN BlockEntries(url) :
           /\ HasChar(BlockEntries(url)[i], "=")
           /\ PairKey(BlockEntries(url)[i]) = KeyConnectionLimit
           /\ ~IsInteger(PairValue(BlockEntries(url)[i]))) =>
        /\ parsed.kind = "InvalidConnectionArguments"
        /\ sqlite # NotBuilt =>
              (sqlite.kind = "InvalidConnectionArguments" /\ conn = NoConnection)

\* C12 (as claimed): an address whose path component is an existing
\* directory fails with DatabaseUrlIsInvalid carrying that path, whatever
\* its parameter block holds.
C12_DirectoryRejected ==
    (parsed # NotParsed /\ IsDir(PathComponent(url))) =>
        /\ parsed.kind = "DatabaseUrlIsInvalid"
        /\ parsed.file_path = PathComponent(url)

\* C13 (as claimed): an address and the same address without its
\* unrecognized key=value entries parse alike: when either one succeeds, the
\* other succeeds with the same file_path, db_name and connection_limit.
C13_UnknownIgnored ==
    LET bare == SqliteParamsTryFrom(WithoutUnknown(url), cores)
    IN  (parsed # NotParsed /\ (parsed.kind = "Ok" \/ bare.kind = "Ok")) =>
            parsed = bare

\* C18 (as claimed): the parameter block is all of the text after the first
\* '?': the outcome is the one the parser gives when every entry after the
\* first '?' is read.
C18_SplitOnFirstMark ==
    LET trimmed == TrimStartMatches(url, SchemePrefix)
        path_str == Before(trimmed, "?")
    IN  parsed # NotParsed =>
            parsed = IF IsDir(path_str)
                       THEN ParamsErr("DatabaseUrlIsInvalid", path_str)
                     ELSE IF HasChar(trimmed, "?")
                       THEN ParseBlock(path_str, After(trimmed, "?"),
                                       Defaults(cores))
                     ELSE ParamsOk(path_str, <<>>,
                                   Defaults(cores).connection_limit)

\* C19 (as claimed): every Configuration has a connection_limit of at least
\* 1: connection_limit=0 is not accepted.
C19_LimitPositive ==
    parsed.kind = "Ok" => parsed.connection_limit # <<"0">>

\* C14: on a connector that has only been constructed and asked for its
\* schema, directly or inside a transaction, the only database is "main",
\* the file at file_path is not attached, and every
\* query_raw("SELECT * FROM sqlite_master") returns Ok with zero rows,
\* whether the file holds tables or not.
C14_FreshIsEmpty ==
    /\ sqlite.kind = "Ok" => conn.attached = {"main"}
    /\ (out.name = "query_raw" /\ out.sql = "MASTER") =>
          (out.kind = "ok" /\ out.val = <<>>)

\* C14 witness: the file holds tables, and the owner of an open transaction
\* has had its schema listing returned.
C14_Witness ==
    /\ disk
    /\ sqlite.kind = "Ok" /\ sqlite.file_path = <<"d", "b">>
    /\ conn.inTx /\ txOwner # NoCaller
    /\ out.name = "query_raw" /\ out.sql = "MASTER" /\ out.caller = txOwner

\* What a literal is read back as when its type is preserved: an integer
\* through as_i64(), a text through as_str(), a floating value through
\* as_f64().
ReadsBackAs(v, l) ==
    CASE l.type = "int" -> AsI64(v) = <<l.n>>
      [] l.type = "text" -> AsStr(v) = <<l.s>>
      [] l.type = "real" -> AsF64(v) = <<<<l.n, l.frac>>>>

\* query_raw("SELECT * FROM USER") of caller p returns in this step, with
\* one row inserted into the table.
SelectReturns(p) ==
    /\ pc[p] = "rows" /\ op[p].sql = "SELECT_USER" /\ pc'[p] = "idle"
    /\ Len(conn.user) = 1

\* The result is exactly one row whose values, by column name, are the
\* literals of the VALUES list with their types.
OneRowOfLiterals(r) ==
    /\ r.kind = "ok"
    /\ Len(r.val) = 1
    /\ \A c \in Columns : ReadsBackAs(r.val[1][c], lit[c])

\* Every literal has the type its column declares.
TypedAsDeclared(row) ==
    \A c \in Columns :
        row[c].type = (CASE Decl[c] = "INT" -> "int"
                         [] Decl[c] = "TEXT" -> "text"
                         [] Decl[c] = "REAL" -> "real")

\* C15 as stated: after CREATE TABLE and the INSERT of one row of literals,
\* SELECT * through query_raw returns exactly one row whose values, by
\* column name, equal the inserted literals with their types preserved,
\* whatever the literals are.
C15_RoundTrip ==
    [][\A p \in Callers : SelectReturns(p) => OneRowOfLiterals(out')]_vars

\* C15: after CREATE TABLE and the INSERT of one row of literals, each of
\* the type its column declares (an integer for INT, a text for TEXT, a
\* floating value for REAL), SELECT * through query_raw returns exactly one
\* row whose values, by column name, equal the inserted literals with their
\* types preserved.
C15_RoundTripTyped ==
    [][\A p \in Callers :
         (SelectReturns(p) /\ TypedAsDeclared(lit)) => OneRowOfLiterals(out')]_vars

\* C15 witness: the row of the test has been inserted and SELECT * FROM USER
\* has returned one row.
C15_Witness ==
    /\ lit = TestRow
    /\ Len(conn.user) = 1
    /\ out.name = "query_raw" /\ out.sql = "SELECT_USER"
    /\ out.kind = "ok" /\ Len(out.val) = 1

\* C16: a caller that is not inside an engine-touching section (it has
\* returned, with a value or with an error, or it waits for the mutex) holds
\* no guard: the mutex is free for the next operation whenever no caller is
\* inside a section.
C16_LockReleased ==
    /\ \A p \in Callers : pc[p] \notin InEngine => lock # p
    /\ (\A p \in Callers : pc[p] \notin InEngine) => lock = NoCaller

\* C16 witness: an operation has returned an engine error from a section it
\* ran under the guard (attach or batch), and another operation holds the
\* mutex after it.
C16_Witness ==
    /\ out.kind = "err" /\ out.name \in {"attach_database", "raw_cmd"}
    /\ pc[out.caller] = "idle"
    /\ \E q \in Callers : lock = q /\ pc[q] \in InEngine

\* C17: under fair scheduling every operation a caller has issued completes:
\* the caller comes back to idle with a value or an error delivered.
C17_EveryOperationCompletes ==
    \A p \in Callers : (pc[p] # "idle") ~> (pc[p] = "idle")

\* C17 witness: an execute has run execute_raw and waits for the mutex a
\* second time while another caller holds it.
C17_Witness ==
    \E p, q \in Callers :
        /\ p # q
        /\ pc[p] = "lock2" /\ op[p].name = "execute"
        /\ lock = q /\ pc[q] \in InEngine

\* C20 (as claimed): the mutex is handed over in order of arrival: a caller
\* gets it only when no other caller has been parked at it for longer.
C20_ArrivalOrder ==
    [][\A p \in Callers :
         (pc[p] \in Waiting /\ pc'[p] \notin Waiting) =>
             (queue = <<>> \/ queue[1] = p)]_vars

====
